---- MODULE Spec2Model ----
(***************************************************************************)
(* Mount-plan resolution of dm/scripts/setup.py: the catalog built by      *)
(* prepare_network_mounts, the mount table written by                      *)
(* setup_network_storage, the wait protocol of mount_fstab and the export  *)
(* table written by setup_nfs_exports, as run by setup_controller,         *)
(* setup_login and setup_compute.                                          *)
(*                                                                         *)
(* Texts.  A path text "/a/b" is the sequence of its segments <<"a","b">>; *)
(* a trailing slash is a final empty segment, "/a/b/" = <<"a","b","">>.    *)
(* A Python value that holds a path is tagged with its type, because a     *)
(* dict distinguishes the str '/apps' from the Path('/apps').  A file is   *)
(* the sequence of the chunks written to it: NL for "\n" and one record    *)
(* per formatted line, whose fields are the format's arguments.            *)
(***************************************************************************)
EXTENDS Integers, Sequences, FiniteSets, TLC

VARIABLES cfg,             \* the configuration read from the metadata
          pc,              \* position of the main thread in setup_*()
          pnm,             \* last call of prepare_network_mounts: its dict and result
          mounts,          \* the module global `mounts`
          fstab_entries,   \* setup_network_storage's list of rendered lines
          fstab,           \* /etc/fstab
          made_dirs,       \* directories created by mkdirp
          task,            \* state of each mount_path task of the pool
          mounted,         \* local paths that are live mount points
          reachable,       \* local paths whose `mount <path>` succeeds
          observed,        \* local paths a wait-loop saw as mounted
          mount_a_done,    \* "mount -a" was run
          nfs_running,     \* nfs-server was enabled and started
          con_mounts,      \* setup_nfs_exports's dict, keyed by remote mount
          exports,         \* setup_nfs_exports's list of export lines
          etc_exports,     \* /etc/exports
          cluster_exports, \* /etc/exports.d/cluster.exports
          exported,        \* the export table the kernel was last given
          activated,       \* exportfs -a ran in the current run of setup_nfs_exports
          runs,            \* completed runs of setup_nfs_exports
          prev_exports,    \* cluster.exports as the previous run left it
          wr               \* writes done on the file that is open

vars == <<cfg, pc, pnm, mounts, fstab_entries, fstab, made_dirs, task, mounted, wr,
          reachable, observed, mount_a_done, nfs_running, con_mounts, exports,
          etc_exports, cluster_exports, exported, activated, runs, prev_exports>>

(***************************************************************************)
(* Bounds of the model.                                                    *)
(***************************************************************************)
MaxLen == 2       \* longest override list of the catalog specification
MaxStorage == 1   \* longest override list of the node-run specification
MaxWorkers == 2   \* worker threads of the pool
MaxPaths == 3     \* waited paths of the wait specification

(***************************************************************************)
(* Python values and paths.                                                *)
(***************************************************************************)
Str(parts) == [py |-> "str", parts |-> parts]

RECURSIVE Normalise(_, _, _)
Normalise(acc, rest, dotdot) ==
    IF rest = <<>> THEN acc
    ELSE LET s == Head(rest) IN
         IF s = "" \/ s = "." THEN Normalise(acc, Tail(rest), dotdot)
         ELSE IF s = ".." /\ dotdot
              THEN Normalise(IF acc = <<>> THEN acc ELSE SubSeq(acc, 1, Len(acc) - 1),
                             Tail(rest), dotdot)
              ELSE Normalise(Append(acc, s), Tail(rest), dotdot)

\* Path(x): pathlib drops empty and "." segments and keeps ".."
Path(v) == [py |-> "Path", parts |-> Normalise(<<>>, v.parts, FALSE)]

\* Path.resolve() on a file system without symbolic links: ".." is folded too
Resolve(p) == [py |-> "Path", parts |-> Normalise(<<>>, p.parts, TRUE)]

\* str(x) and "{x}".format(): the text of a str or of a Path
Text(v) == v.parts

CONTROL_MACHINE == "c-controller"

dirs == [home     |-> Path(Str(<<"home">>)),
         apps     |-> Path(Str(<<"apps">>)),
         secdisk  |-> Path(Str(<<"mnt", "disks", "sec">>)),
         apps_sec |-> Path(Str(<<"mnt", "disks", "sec", "apps">>))]

Partitions == {"p0", "p1"}

(***************************************************************************)
(* Python dicts: a sequence of [k, v] items in insertion order, keys       *)
(* distinct.  An assignment to a present key keeps the key's position.     *)
(***************************************************************************)
DictKeys(d) == {d[i].k : i \in DOMAIN d}

DictGet(d, key) == (CHOOSE i \in DOMAIN d : d[i].k = key)

DictValue(d, key) == d[DictGet(d, key)].v

DictSet(d, key, val) ==
    IF key \in DictKeys(d)
    THEN [d EXCEPT ![DictGet(d, key)] = [k |-> key, v |-> val]]
    ELSE Append(d, [k |-> key, v |-> val])

RECURSIVE DictUpdate(_, _)
DictUpdate(d, e) ==
    IF e = <<>> THEN d
    ELSE DictUpdate(DictSet(d, Head(e).k, Head(e).v), Tail(e))

(***************************************************************************)
(* prepare_network_mounts                                                  *)
(***************************************************************************)
default_mounts == <<dirs.home, dirs.apps, dirs.apps_sec>>

CONTROL_NFS(path) ==
    [server_ip     |-> CONTROL_MACHINE,
     remote_mount  |-> path,
     local_mount   |-> path,
     fs_type       |-> "nfs",
     mount_options |-> <<"defaults", "hard", "intr">>]

SeedMounts ==
    [i \in DOMAIN default_mounts |->
        [k |-> default_mounts[i], v |-> CONTROL_NFS(default_mounts[i])]]

RECURSIVE listtodict(_)
listtodict(mountlist) ==
    IF mountlist = <<>> THEN <<>>
    ELSE LET d == mountlist[Len(mountlist)]
         IN  DictSet(listtodict(SubSeq(mountlist, 1, Len(mountlist) - 1)),
                     Resolve(Path(d.local_mount)), d)

\* the role-specific list: the partition's for a compute node, the login list otherwise
RoleStorage(c, part, instance_type) ==
    IF instance_type = "compute"
    THEN c.instance_defs[part].network_storage
    ELSE c.login_network_storage

CatalogGlobalLast(c, part, instance_type) ==
    DictUpdate(DictUpdate(SeedMounts, listtodict(RoleStorage(c, part, instance_type))),
               listtodict(c.network_storage))

\* the local dict `mounts` of prepare_network_mounts before it is partitioned
Catalog(c, part, instance_type) ==
    DictUpdate(DictUpdate(SeedMounts, listtodict(c.network_storage)),
               listtodict(RoleStorage(c, part, instance_type)))

internal_mount_any(item) == TRUE

internal_mount(item) == item.v.server_ip = CONTROL_MACHINE

\* reduce(lambda acc, el: acc[pred(el)].append(el) or acc, coll, ([], []))
RECURSIVE partition(_)
partition(coll) ==
    IF coll = <<>> THEN <<<<>>, <<>>>>
    ELSE LET acc == partition(SubSeq(coll, 1, Len(coll) - 1))
             el  == coll[Len(coll)]
         IN  IF internal_mount(el)
             THEN <<acc[1], Append(acc[2], el)>>
             ELSE <<Append(acc[1], el), acc[2]>>

\* tuple(map(dict, ...)): the items of each list, keys distinct already
prepare_network_mounts(c, part, instance_type) ==
    LET p == partition(Catalog(c, part, instance_type))
    IN  [mounts |-> Catalog(c, part, instance_type),
         ext    |-> DictUpdate(<<>>, p[1]),
         int    |-> DictUpdate(<<>>, p[2])]

(***************************************************************************)
(* setup_secondary_disks and setup_network_storage                         *)
(***************************************************************************)
NL == [kind |-> "nl"]

Range(s) == {s[i] : i \in DOMAIN s}

\* "{0}:{1}    {2}     {3}      {4}  0 0" and, with server "", "{0}   {1}     {2}     {3}     0 0"
FstabLine(server, remote, local, fs_type, options) ==
    [kind |-> "fstab", server |-> server, remote |-> remote, local |-> local,
     fs_type |-> fs_type, options |-> options]

BootDisk == FstabLine("", <<"dev", "sda1">>, <<>>, "ext4", <<"defaults">>)

SecondaryDisk ==
    FstabLine("", <<"dev", "sdb">>, Text(dirs.secdisk), "ext4",
              <<"discard", "defaults", "nofail">>)

MountOptionsAlways(mount) ==
    LET netdev == Append(mount.mount_options, "_netdev")
    IN  IF mount.fs_type = "gcsfuse" THEN Append(netdev, "nonempty") ELSE netdev

\* mount_options.split(','), then the two markers, each added if absent
MountOptions(mount) ==
    LET split  == mount.mount_options
        netdev == IF split = <<>> \/ "_netdev" \notin Range(split)
                  THEN Append(split, "_netdev") ELSE split
    IN  IF mount.fs_type = "gcsfuse" /\ "nonempty" \notin Range(netdev)
        THEN Append(netdev, "nonempty")
        ELSE netdev

FstabEntry(local_mount, mount) ==
    IF mount.fs_type = "gcsfuse"
    THEN FstabLine("", Text(mount.remote_mount), Text(local_mount),
                   mount.fs_type, MountOptions(mount))
    ELSE FstabLine(mount.server_ip, Text(Resolve(Path(mount.remote_mount))),
                   Text(local_mount), mount.fs_type, MountOptions(mount))

\* the global `mounts`: the external mounts and, off the controller, the internal ones
NodeMounts(c, part) ==
    LET r == prepare_network_mounts(c, part, c.instance_type)
    IN  IF c.instance_type # "controller" THEN DictUpdate(r.ext, r.int) ELSE r.ext

RECURSIVE FstabEntries(_, _)
FstabEntries(c, m) ==
    IF m = <<>> THEN <<>>
    ELSE LET rest == FstabEntries(c, SubSeq(m, 1, Len(m) - 1))
             item == m[Len(m)]
         IN  IF item.v.server_ip = CONTROL_MACHINE /\ c.instance_type = "controller"
             THEN rest
             ELSE Append(rest, FstabEntry(item.k, item.v))

FstabCompleteEarly(n, entries) == n >= 1

\* the with block of setup_network_storage is left after the blank line and every entry
FstabComplete(n, entries) == n = Len(entries) + 1

Start ==
    /\ pc = "start"
    /\ pc' = IF cfg.instance_type = "controller" /\ cfg.controller_secondary_disk
             THEN "secondary_disks" ELSE "network_storage"
    /\ UNCHANGED <<cfg, pnm, mounts, fstab_entries, fstab, made_dirs, task, mounted, wr,
                   reachable, observed, mount_a_done, nfs_running, con_mounts, exports,
                   etc_exports, cluster_exports, exported, activated, runs, prev_exports>>

SetupSecondaryDisks ==
    /\ pc = "secondary_disks"
    /\ made_dirs' = made_dirs \cup {dirs.secdisk}
    /\ fstab' = fstab \o <<NL, SecondaryDisk>>
    /\ pc' = "network_storage"
    /\ UNCHANGED <<cfg, pnm, mounts, fstab_entries, task, mounted, wr,
                   reachable, observed, mount_a_done, nfs_running, con_mounts, exports,
                   etc_exports, cluster_exports, exported, activated, runs, prev_exports>>

SetupNetworkStorage ==
    /\ pc = "network_storage"
    /\ pnm' = prepare_network_mounts(cfg, cfg.pid, cfg.instance_type)
    /\ mounts' = NodeMounts(cfg, cfg.pid)
    /\ fstab_entries' = FstabEntries(cfg, mounts')
    /\ made_dirs' = made_dirs \cup DictKeys(mounts')
    /\ wr' = 0
    /\ pc' = "fstab_write"
    /\ UNCHANGED <<cfg, fstab, task, mounted,
                   reachable, observed, mount_a_done, nfs_running, con_mounts, exports,
                   etc_exports, cluster_exports, exported, activated, runs, prev_exports>>

\* f.write('\n'), then f.write(entry); f.write('\n') for each entry
FstabWrite ==
    /\ pc = "fstab_write"
    /\ fstab' = fstab \o (IF wr = 0 THEN <<NL>> ELSE <<fstab_entries[wr], NL>>)
    /\ wr' = wr + 1
    /\ pc' = IF FstabComplete(wr', fstab_entries) THEN "mount_fstab" ELSE pc
    /\ UNCHANGED <<cfg, pnm, mounts, fstab_entries, made_dirs, task, mounted,
                   reachable, observed, mount_a_done, nfs_running, con_mounts, exports,
                   etc_exports, cluster_exports, exported, activated, runs, prev_exports>>

(***************************************************************************)
(* mount_fstab: one mount_path task per key of `mounts`, run by a pool of  *)
(* MaxWorkers threads that take the tasks in the order they were submitted *)
(***************************************************************************)
Running == {i \in DOMAIN task : task[i] \in {"testing", "mounting"}}

MountFstabSubmit ==
    /\ pc = "mount_fstab"
    /\ task' = [i \in DOMAIN mounts |-> "queued"]
    /\ pc' = "pool_shutdown"
    /\ UNCHANGED <<cfg, pnm, mounts, fstab_entries, fstab, made_dirs, mounted, wr,
                   reachable, observed, mount_a_done, nfs_running, con_mounts, exports,
                   etc_exports, cluster_exports, exported, activated, runs, prev_exports>>

WorkerFreeSequential(i) == \A j \in DOMAIN task : j < i => task[j] = "done"

\* a worker is idle and i is the oldest task of the queue
WorkerFree(i) ==
    /\ Cardinality(Running) < MaxWorkers
    /\ \A j \in DOMAIN task : j < i => task[j] # "queued"

TaskStart(i) ==
    /\ i \in DOMAIN task
    /\ task[i] = "queued"
    /\ WorkerFree(i)
    /\ task' = [task EXCEPT ![i] = "testing"]
    /\ UNCHANGED <<cfg, pc, pnm, mounts, fstab_entries, fstab, made_dirs, mounted, wr,
                   reachable, observed, mount_a_done, nfs_running, con_mounts, exports,
                   etc_exports, cluster_exports, exported, activated, runs, prev_exports>>

\* `while not os.path.ismount(path)`: the path is not mounted, the body is entered
TaskTest(i) ==
    /\ i \in DOMAIN task
    /\ task[i] = "testing"
    /\ mounts[i].k \notin mounted
    /\ task' = [task EXCEPT ![i] = "mounting"]
    /\ UNCHANGED <<cfg, pc, pnm, mounts, fstab_entries, fstab, made_dirs, mounted, wr,
                   reachable, observed, mount_a_done, nfs_running, con_mounts, exports,
                   etc_exports, cluster_exports, exported, activated, runs, prev_exports>>

\* util.run("mount <path>", wait=5), then back to the test
TaskMount(i) ==
    /\ i \in DOMAIN task
    /\ task[i] = "mounting"
    /\ mounted' = IF mounts[i].k \in reachable THEN mounted \cup {mounts[i].k} ELSE mounted
    /\ task' = [task EXCEPT ![i] = "testing"]
    /\ UNCHANGED <<cfg, pc, pnm, mounts, fstab_entries, fstab, made_dirs, wr,
                   reachable, observed, mount_a_done, nfs_running, con_mounts, exports,
                   etc_exports, cluster_exports, exported, activated, runs, prev_exports>>

\* `while not os.path.ismount(path)`: the path is mounted, mount_path returns
TaskReturn(i) ==
    /\ i \in DOMAIN task
    /\ task[i] = "testing"
    /\ mounts[i].k \in mounted
    /\ task' = [task EXCEPT ![i] = "done"]
    /\ observed' = observed \cup {mounts[i].k}
    /\ UNCHANGED <<cfg, pc, pnm, mounts, fstab_entries, fstab, made_dirs, mounted, wr,
                   reachable, mount_a_done, nfs_running, con_mounts, exports,
                   etc_exports, cluster_exports, exported, activated, runs, prev_exports>>

PoolDrainedNoWait == TRUE

\* the executor's __exit__ is shutdown(wait=True): every task has returned
PoolDrained == \A i \in DOMAIN task : task[i] = "done"

PoolShutdown ==
    /\ pc = "pool_shutdown"
    /\ PoolDrained
    /\ pc' = "mount_a"
    /\ UNCHANGED <<cfg, pnm, mounts, fstab_entries, fstab, made_dirs, task, mounted, wr,
                   reachable, observed, mount_a_done, nfs_running, con_mounts, exports,
                   etc_exports, cluster_exports, exported, activated, runs, prev_exports>>

\* util.run("mount -a"): every line of the table that can be mounted is
MountAll ==
    /\ pc = "mount_a"
    /\ mounted' = mounted \cup
           {k \in reachable : \E j \in DOMAIN fstab :
                fstab[j].kind = "fstab" /\ fstab[j].local = Text(k)}
    /\ mount_a_done' = TRUE
    /\ pc' = "custom_install"
    /\ UNCHANGED <<cfg, pnm, mounts, fstab_entries, fstab, made_dirs, task, wr,
                   reachable, observed, nfs_running, con_mounts, exports,
                   etc_exports, cluster_exports, exported, activated, runs, prev_exports>>

\* the custom install script, its failure ignored
CustomInstall ==
    /\ pc = "custom_install"
    /\ pc' = IF cfg.instance_type = "controller" THEN "nfs_server" ELSE "done"
    /\ UNCHANGED <<cfg, pnm, mounts, fstab_entries, fstab, made_dirs, task, mounted, wr,
                   reachable, observed, mount_a_done, nfs_running, con_mounts, exports,
                   etc_exports, cluster_exports, exported, activated, runs, prev_exports>>

\* systemctl enable nfs-server; systemctl start nfs-server: the starting service
\* exports the tables as they are
StartNfsServer ==
    /\ pc = "nfs_server"
    /\ nfs_running' = TRUE
    /\ exported' = Range(etc_exports) \cup {l \in Range(cluster_exports) : l.kind = "export"}
    /\ pc' = "nfs_exports"
    /\ UNCHANGED <<cfg, pnm, mounts, fstab_entries, fstab, made_dirs, task, mounted, wr,
                   reachable, observed, mount_a_done, con_mounts, exports,
                   etc_exports, cluster_exports, activated, runs, prev_exports>>

(***************************************************************************)
(* setup_nfs_exports                                                       *)
(***************************************************************************)
instance_defs_items == <<"p0", "p1">>

\* {m.remote_mount: m for m in mounts.values()}
RECURSIVE ByRemoteMount(_)
ByRemoteMount(d) ==
    IF d = <<>> THEN <<>>
    ELSE DictSet(ByRemoteMount(SubSeq(d, 1, Len(d) - 1)),
                 d[Len(d)].v.remote_mount, d[Len(d)].v)

RECURSIVE PartitionMounts(_, _, _)
PartitionMounts(c, acc, pids) ==
    IF pids = <<>> THEN acc
    ELSE PartitionMounts(
             c,
             DictUpdate(acc, ByRemoteMount(prepare_network_mounts(c, Head(pids), "compute").int)),
             Tail(pids))

ExportMountsNoController(c) == PartitionMounts(c, <<>>, instance_defs_items)

\* the controller's internal mounts, then those of a node of each partition
ExportMounts(c) ==
    PartitionMounts(c, ByRemoteMount(prepare_network_mounts(c, c.pid, c.instance_type).int),
                    instance_defs_items)

\* "{path}  *(rw,no_subtree_check,no_root_squash)"
ExportLine(path) == [kind |-> "export", path |-> path]

exportsd == Path(Str(<<"etc", "exports.d">>))

\* sed's address \#path#: the line holds the path's text.  The texts are compared
\* segment by segment; a pattern ending in "/" needs a segment to follow.
SedMatches(pattern, line) ==
    LET slash == pattern # <<>> /\ pattern[Len(pattern)] = ""
        segs  == IF slash THEN SubSeq(pattern, 1, Len(pattern) - 1) ELSE pattern
        n     == Len(segs)
    IN  \E o \in 0..(Len(line.path) - n) :
            /\ SubSeq(line.path, o + 1, o + n) = segs
            /\ slash => o + n < Len(line.path)

RECURSIVE SedDelete(_, _)
SedDelete(pattern, lines) ==
    IF lines = <<>> THEN <<>>
    ELSE IF SedMatches(pattern, Head(lines))
         THEN SedDelete(pattern, Tail(lines))
         ELSE <<Head(lines)>> \o SedDelete(pattern, Tail(lines))

ExportsCompleteEarly(n, lines) == n >= 1

\* the with block of setup_nfs_exports is left after the blank line and every line
ExportsComplete(n, lines) == n = Len(lines) + 1

SetupNfsExports ==
    /\ pc = "nfs_exports"
    /\ pnm' = prepare_network_mounts(cfg, instance_defs_items[Len(instance_defs_items)],
                                     "compute")
    /\ con_mounts' = ExportMounts(cfg)
    /\ exports' = <<>>
    /\ pc' = IF con_mounts' = <<>> THEN "exports_open" ELSE "exports_loop"
    /\ UNCHANGED <<cfg, mounts, fstab_entries, fstab, made_dirs, task, mounted, wr,
                   reachable, observed, mount_a_done, nfs_running,
                   etc_exports, cluster_exports, exported, activated, runs, prev_exports>>

\* one turn of `for path in con_mounts`
ExportsLoop ==
    /\ pc = "exports_loop"
    /\ LET path == con_mounts[Len(exports) + 1].k
       IN  /\ made_dirs' = made_dirs \cup {Resolve(Path(path))}
           /\ etc_exports' = SedDelete(Text(path), etc_exports)
           /\ exports' = Append(exports, ExportLine(Text(path)))
    /\ pc' = IF Len(exports') = Len(con_mounts) THEN "exports_open" ELSE pc
    /\ UNCHANGED <<cfg, pnm, mounts, fstab_entries, fstab, task, mounted, wr,
                   reachable, observed, mount_a_done, nfs_running, con_mounts,
                   cluster_exports, exported, activated, runs, prev_exports>>

\* exportsd.mkdirp(); open('w') truncates the file
ExportsOpen ==
    /\ pc = "exports_open"
    /\ made_dirs' = made_dirs \cup {exportsd}
    /\ cluster_exports' = <<>>
    /\ wr' = 0
    /\ pc' = "exports_write"
    /\ UNCHANGED <<cfg, pnm, mounts, fstab_entries, fstab, task, mounted,
                   reachable, observed, mount_a_done, nfs_running, con_mounts, exports,
                   etc_exports, exported, activated, runs, prev_exports>>

\* f.write('\n'), then '\n'.join(exports), which reaches the file a line at a time
ExportsWrite ==
    /\ pc = "exports_write"
    /\ cluster_exports' = cluster_exports \o
           (IF wr = 0 THEN <<NL>>
            ELSE IF wr = 1 THEN <<exports[wr]>> ELSE <<NL, exports[wr]>>)
    /\ wr' = wr + 1
    /\ pc' = IF ExportsComplete(wr', exports) THEN "exportfs" ELSE pc
    /\ UNCHANGED <<cfg, pnm, mounts, fstab_entries, fstab, made_dirs, task, mounted,
                   reachable, observed, mount_a_done, nfs_running, con_mounts, exports,
                   etc_exports, exported, activated, runs, prev_exports>>

\* a write raises: the run ends in the exception hook
ExportsWriteFailure ==
    /\ pc = "exports_write"
    /\ pc' = "failed"
    /\ UNCHANGED <<cfg, pnm, mounts, fstab_entries, fstab, made_dirs, task, mounted, wr,
                   reachable, observed, mount_a_done, nfs_running, con_mounts, exports,
                   etc_exports, cluster_exports, exported, activated, runs, prev_exports>>

ExportTable == Range(etc_exports) \cup {l \in Range(cluster_exports) : l.kind = "export"}

\* util.run("exportfs -a")
ExportfsA ==
    /\ pc = "exportfs"
    /\ exported' = ExportTable
    /\ activated' = TRUE
    /\ runs' = runs + 1
    /\ pc' = "done"
    /\ UNCHANGED <<cfg, pnm, mounts, fstab_entries, fstab, made_dirs, task, mounted, wr,
                   reachable, observed, mount_a_done, nfs_running, con_mounts, exports,
                   etc_exports, cluster_exports, prev_exports>>

\* setup_nfs_exports is run a second time on the same controller
RerunNfsExports ==
    /\ pc = "done"
    /\ cfg.instance_type = "controller"
    /\ runs = 1
    /\ prev_exports' = cluster_exports
    /\ activated' = FALSE
    /\ pc' = "nfs_exports"
    /\ UNCHANGED <<cfg, pnm, mounts, fstab_entries, fstab, made_dirs, task, mounted, wr,
                   reachable, observed, mount_a_done, nfs_running, con_mounts, exports,
                   etc_exports, cluster_exports, exported, runs>>

(***************************************************************************)
(* Configurations and initial states                                       *)
(***************************************************************************)
Mount(server, remote, local, fs_type, options) ==
    [server_ip |-> server, remote_mount |-> Str(remote), local_mount |-> Str(local),
     fs_type |-> fs_type, mount_options |-> options]

Lists(U, n) == UNION {[1..k -> U] : k \in 0..n}

Config(type, part, disk, global, login, defs) ==
    [instance_type |-> type, pid |-> part, controller_secondary_disk |-> disk,
     network_storage |-> global, login_network_storage |-> login,
     instance_defs |-> [p \in Partitions |-> [network_storage |-> defs[p]]]]

NoStorage == [p \in Partitions |-> <<>>]

\* records of the node-run specification, by the list they are drawn for
GlobalRecords ==
    {Mount("nfs1", <<"export", "apps">>, <<"apps">>, "nfs", <<"defaults">>),
     Mount("gcs", <<"bucket">>, <<"data">>, "gcsfuse", <<>>)}

LoginRecords ==
    {Mount(CONTROL_MACHINE, <<"export", "data", "">>, <<"data", "">>, "nfs", <<"_netdev">>),
     Mount("nfs1", <<"export", "home">>, <<"home">>, "nfs", <<"defaults", "_netdev">>)}

PartRecords ==
    {Mount(CONTROL_MACHINE, <<"apps">>, <<"tools">>, "nfs", <<"defaults">>),
     Mount("nfs1", <<"scratch">>, <<"scratch">>, "nfs", <<"defaults">>)}

\* a node's configuration; the lists a role never reads are left empty
RunConfigs ==
    {Config("controller", "p0", disk, g, l, defs) :
        disk \in BOOLEAN, g \in Lists(GlobalRecords, MaxStorage),
        l \in Lists(LoginRecords, MaxStorage),
        defs \in [Partitions -> Lists(PartRecords, MaxStorage)]}
    \cup {Config("login", "p0", FALSE, g, l, NoStorage) :
        g \in Lists(GlobalRecords, MaxStorage), l \in Lists(LoginRecords, MaxStorage)}
    \cup {Config("compute", part, FALSE, g, <<>>, [NoStorage EXCEPT ![part] = r]) :
        part \in Partitions, g \in Lists(GlobalRecords, MaxStorage),
        r \in Lists(PartRecords, MaxStorage)}

LocalPaths(c) ==
    UNION {DictKeys(Catalog(c, part, type)) :
              part \in Partitions, type \in {"controller", "compute"}}

InitFiles ==
    /\ pc = "start"
    /\ pnm = [mounts |-> <<>>, ext |-> <<>>, int |-> <<>>]
    /\ mounts = <<>>
    /\ fstab_entries = <<>>
    /\ made_dirs = {}
    /\ task = <<>>
    /\ observed = {}
    /\ mount_a_done = FALSE
    /\ nfs_running = FALSE
    /\ con_mounts = <<>>
    /\ exports = <<>>
    /\ cluster_exports = <<>>
    /\ exported = {}
    /\ activated = FALSE
    /\ runs = 0
    /\ prev_exports = <<>>
    /\ wr = 0

Init ==
    /\ cfg \in RunConfigs
    /\ InitFiles
    /\ fstab = <<BootDisk, NL>>
    /\ mounted = {}
    /\ reachable \in {LocalPaths(cfg), LocalPaths(cfg) \ {dirs.apps}}
    /\ etc_exports \in IF cfg.instance_type = "controller"
                        THEN {<<>>, <<ExportLine(<<"srv">>), ExportLine(Text(dirs.apps_sec))>>}
                        ELSE {<<>>}

Next ==
    \/ Start
    \/ SetupSecondaryDisks
    \/ SetupNetworkStorage
    \/ FstabWrite
    \/ MountFstabSubmit
    \/ \E i \in 1..Len(mounts) : TaskStart(i)
    \/ \E i \in 1..Len(mounts) : TaskTest(i)
    \/ \E i \in 1..Len(mounts) : TaskMount(i)
    \/ \E i \in 1..Len(mounts) : TaskReturn(i)
    \/ PoolShutdown
    \/ MountAll
    \/ CustomInstall
    \/ StartNfsServer
    \/ SetupNfsExports
    \/ ExportsLoop
    \/ ExportsOpen
    \/ ExportsWrite
    \/ ExportsWriteFailure
    \/ ExportfsA
    \/ RerunNfsExports

Spec == Init /\ [][Next]_vars

(***************************************************************************)
(* The catalog specification: prepare_network_mounts and the rendering of  *)
(* setup_network_storage on override lists of up to MaxLen records, with   *)
(* local mounts that collide with a default and with each other.           *)
(***************************************************************************)
PureRecords ==
    {Mount("nfs1", <<"vol", "..", "home">>, <<"home">>, "nfs", <<"defaults">>),
     Mount(CONTROL_MACHINE, <<"export", "data", "">>, <<"home", ".">>, "nfs", <<"_netdev">>),
     Mount("gcs", <<"bucket">>, <<"data", "">>, "gcsfuse", <<>>),
     Mount("gcs", <<"bucket2">>, <<"tmp", "..", "bucket">>, "gcsfuse",
           <<"nonempty", "_netdev">>)}

PureConfigs ==
    {Config(type, "p0", FALSE, g, r, NoStorage) :
        type \in {"controller", "login"},
        g \in Lists(PureRecords, MaxLen), r \in Lists(PureRecords, MaxLen)}
    \cup {Config("compute", "p0", FALSE, g, <<>>, [NoStorage EXCEPT !["p0"] = r]) :
        g \in Lists(PureRecords, MaxLen), r \in Lists(PureRecords, MaxLen)}

PureInit ==
    /\ cfg \in PureConfigs
    /\ InitFiles
    /\ fstab = <<BootDisk, NL>>
    /\ mounted = {}
    /\ reachable = LocalPaths(cfg)
    /\ etc_exports = <<>>

PureNext == Start \/ SetupNetworkStorage \/ FstabWrite

PureSpec == PureInit /\ [][PureNext]_vars

(***************************************************************************)
(* The wait specification: mount_fstab on a controller whose wait set is   *)
(* up to MaxPaths external mounts, any of which may be mounted already or  *)
(* may never mount.  The threads of the pool and the main thread are       *)
(* scheduled fairly.                                                       *)
(***************************************************************************)
WaitStorage ==
    <<Mount("nfs1", <<"export", "home">>, <<"home">>, "nfs", <<"defaults">>),
      Mount("nfs2", <<"export", "apps">>, <<"apps">>, "nfs", <<"defaults">>),
      Mount("nfs3", <<"data">>, <<"data">>, "nfs", <<"defaults">>),
      Mount("nfs4", <<"scratch">>, <<"scratch">>, "nfs", <<"defaults">>),
      Mount("gcs", <<"bucket">>, <<"bucket">>, "gcsfuse", <<>>)>>

WaitSizes == {n \in 1..MaxPaths : n <= Len(WaitStorage)}

WaitKeys == {Resolve(Path(WaitStorage[i].local_mount)) : i \in DOMAIN WaitStorage}

RECURSIVE FstabBlock(_)
FstabBlock(entries) ==
    IF entries = <<>> THEN <<NL>>
    ELSE FstabBlock(SubSeq(entries, 1, Len(entries) - 1)) \o <<entries[Len(entries)], NL>>

WaitInit ==
    /\ \E n \in WaitSizes :
          cfg = Config("controller", "p0", FALSE, SubSeq(WaitStorage, 1, n), <<>>, NoStorage)
    /\ pc = "mount_fstab"
    /\ pnm = prepare_network_mounts(cfg, cfg.pid, cfg.instance_type)
    /\ mounts = NodeMounts(cfg, cfg.pid)
    /\ fstab_entries = FstabEntries(cfg, mounts)
    /\ fstab = <<BootDisk, NL>> \o FstabBlock(fstab_entries)
    /\ made_dirs = DictKeys(mounts)
    /\ wr = Len(fstab_entries) + 1
    /\ task = <<>>
    /\ observed = {}
    /\ mount_a_done = FALSE
    /\ nfs_running = FALSE
    /\ con_mounts = <<>>
    /\ exports = <<>>
    /\ etc_exports = <<>>
    /\ cluster_exports = <<>>
    /\ exported = {}
    /\ activated = FALSE
    /\ runs = 0
    /\ prev_exports = <<>>
    /\ mounted \in SUBSET DictKeys(mounts)
    /\ reachable \in SUBSET DictKeys(mounts)

WaitNext ==
    \/ MountFstabSubmit
    \/ \E i \in 1..Len(mounts) : TaskStart(i)
    \/ \E i \in 1..Len(mounts) : TaskTest(i)
    \/ \E i \in 1..Len(mounts) : TaskMount(i)
    \/ \E i \in 1..Len(mounts) : TaskReturn(i)
    \/ PoolShutdown
    \/ MountAll

WaitFairness ==
    /\ WF_vars(MountFstabSubmit)
    /\ WF_vars(PoolShutdown)
    /\ WF_vars(MountAll)
    /\ \A i \in DOMAIN WaitStorage :
          /\ WF_vars(TaskStart(i)) /\ WF_vars(TaskTest(i))
          /\ WF_vars(TaskMount(i)) /\ WF_vars(TaskReturn(i))

WaitSpec == WaitInit /\ [][WaitNext]_vars /\ WaitFairness

(***************************************************************************)
(* Properties                                                              *)
(***************************************************************************)
Count(x, s) == Cardinality({i \in DOMAIN s : s[i] = x})

KeyOf(d) == Resolve(Path(d.local_mount))

KeysOf(list) == {KeyOf(list[i]) : i \in DOMAIN list}

LastFor(list, key) ==
    list[CHOOSE i \in DOMAIN list :
            KeyOf(list[i]) = key /\ \A j \in DOMAIN list : j > i => KeyOf(list[j]) # key]

DefaultKeys == {dirs.home, dirs.apps, dirs.apps_sec}

RoleList ==
    IF cfg.instance_type = "compute"
    THEN cfg.instance_defs[cfg.pid].network_storage
    ELSE cfg.login_network_storage

\* setup_network_storage has called prepare_network_mounts for this node
Prepared == pc \in {"fstab_write", "mount_fstab"}

\* C1: the catalog's keys are the keys of the defaults, the global list and the role
\* list, and each key holds the whole record of the highest layer that has it
\* (role list over global list over defaults; within a list, the last record).
C1_CatalogPrecedence ==
    Prepared =>
        /\ DictKeys(pnm.mounts) =
              DefaultKeys \cup KeysOf(cfg.network_storage) \cup KeysOf(RoleList)
        /\ Cardinality(DictKeys(pnm.mounts)) = Len(pnm.mounts)
        /\ \A key \in DictKeys(pnm.mounts) :
              DictValue(pnm.mounts, key) =
                  IF key \in KeysOf(RoleList) THEN LastFor(RoleList, key)
                  ELSE IF key \in KeysOf(cfg.network_storage)
                       THEN LastFor(cfg.network_storage, key)
                       ELSE [server_ip |-> CONTROL_MACHINE, remote_mount |-> key,
                             local_mount |-> key, fs_type |-> "nfs",
                             mount_options |-> <<"defaults", "hard", "intr">>]

\* a key of all three layers, the global and the role record differing
C1_Witness ==
    /\ Prepared
    /\ \E key \in DefaultKeys \cap KeysOf(cfg.network_storage) \cap KeysOf(RoleList) :
          /\ LastFor(cfg.network_storage, key) # LastFor(RoleList, key)
          /\ DictValue(pnm.mounts, key) = LastFor(RoleList, key)

\* C2: external and internal are disjoint, together they hold the catalog's items,
\* and an item is internal exactly when its server is the controller.
C2_LocalityPartition ==
    Prepared =>
        /\ DictKeys(pnm.ext) \cap DictKeys(pnm.int) = {}
        /\ DictKeys(pnm.ext) \cup DictKeys(pnm.int) = DictKeys(pnm.mounts)
        /\ Range(pnm.ext) \cup Range(pnm.int) = Range(pnm.mounts)
        /\ \A item \in Range(pnm.mounts) :
              (item \in Range(pnm.int)) <=> (item.v.server_ip = CONTROL_MACHINE)
        /\ \A item \in Range(pnm.mounts) :
              (item \in Range(pnm.ext)) <=> (item.v.server_ip # CONTROL_MACHINE)

C2_Witness ==
    /\ Prepared
    /\ Len(pnm.ext) >= 2
    /\ Len(pnm.int) >= 2
    /\ \E item \in Range(pnm.int) : item.v \in Range(cfg.network_storage)

\* the record a rendered line was made from
EntrySource(entry) ==
    (CHOOSE item \in Range(mounts) : Text(item.k) = entry.local).v

\* C10: every rendered line has _netdev, every gcsfuse line has nonempty too, and a
\* marker the input has at most once is in the rendered options exactly once.
C10_OptionMarkers ==
    \A i \in DOMAIN fstab_entries :
        LET entry == fstab_entries[i]
            given == EntrySource(entry).mount_options
        IN  /\ "_netdev" \in Range(entry.options)
            /\ Count("_netdev", given) <= 1 => Count("_netdev", entry.options) = 1
            /\ entry.fs_type = "gcsfuse" =>
                  /\ "nonempty" \in Range(entry.options)
                  /\ Count("nonempty", given) <= 1 => Count("nonempty", entry.options) = 1
            /\ pc = "mount_fstab" => Count(entry, fstab) = 1

\* a gcsfuse line whose input had both markers, and a line whose input had neither
C10_Witness ==
    /\ pc = "mount_fstab"
    /\ \E i \in DOMAIN fstab_entries :
          /\ fstab_entries[i].fs_type = "gcsfuse"
          /\ "nonempty" \in Range(EntrySource(fstab_entries[i]).mount_options)
          /\ "_netdev" \in Range(EntrySource(fstab_entries[i]).mount_options)
    /\ \E i \in DOMAIN fstab_entries :
          /\ fstab_entries[i].fs_type = "gcsfuse"
          /\ EntrySource(fstab_entries[i]).mount_options = <<>>

OnController == cfg.instance_type = "controller"

\* the resolved catalog of a node of the given class of this cluster
ClassCatalog(type, part) == Catalog(cfg, part, type)

InternalRecords(type, part) ==
    {item \in Range(ClassCatalog(type, part)) : item.v.server_ip = CONTROL_MACHINE}

ExportedPaths == {l.path : l \in {c \in Range(cluster_exports) : c.kind = "export"}}

\* C3: on the controller, after setup_network_storage and setup_nfs_exports, no line
\* of the mount table mounts a record served by the controller, and the remote path
\* of every such record has a line in the export table.
C3_ControllerExportsNotMounts ==
    (OnController /\ pc = "done") =>
        /\ \A j \in DOMAIN fstab :
              fstab[j].kind = "fstab" =>
                  /\ fstab[j].server # CONTROL_MACHINE
                  /\ \A item \in InternalRecords("controller", cfg.pid) :
                        Text(item.k) # fstab[j].local
        /\ \A item \in InternalRecords("controller", cfg.pid) :
              /\ Text(item.v.remote_mount) \in ExportedPaths
              /\ ExportLine(Text(item.v.remote_mount)) \in exported

\* a controller that has an internal record of its login list and an external mount
C3_Witness ==
    /\ OnController
    /\ pc = "done"
    /\ \E item \in InternalRecords("controller", cfg.pid) : item.k \notin DefaultKeys
    /\ \E j \in DOMAIN fstab : fstab[j].kind = "fstab" /\ fstab[j].server = "nfs1"

\* the lines a node of a class writes to its own mount table
ClassEntries(type, part) ==
    LET c == [cfg EXCEPT !.instance_type = type, !.pid = part]
    IN  FstabEntries(c, NodeMounts(c, part))

NodeClasses ==
    {<<"controller", cfg.pid>>, <<"login", cfg.pid>>} \cup {<<"compute", p>> : p \in Partitions}

\* C4: after setup_nfs_exports, every path a node of any class mounts from the
\* controller is a path of the export table.
C4_ImportsAreExported ==
    (OnController /\ pc = "done") =>
        \A class \in NodeClasses :
            \A entry \in Range(ClassEntries(class[1], class[2])) :
                entry.server = CONTROL_MACHINE => entry.remote \in ExportedPaths

\* C5: a second run of setup_nfs_exports leaves cluster.exports as the first run
\* left it, and the file has exactly one line for each exported remote path.
C5_ExportsIdempotent ==
    (OnController /\ pc = "done") =>
        /\ runs >= 2 => cluster_exports = prev_exports
        /\ \A path \in ExportedPaths : Count(ExportLine(path), cluster_exports) = 1

\* the first half of C5 alone
C5_RerunIdentical ==
    (OnController /\ pc = "done" /\ runs >= 2) => cluster_exports = prev_exports

RECURSIVE ExportsText(_)
ExportsText(lines) ==
    IF lines = <<>> THEN <<NL>>
    ELSE IF Len(lines) = 1 THEN <<NL, lines[1]>>
    ELSE ExportsText(SubSeq(lines, 1, Len(lines) - 1)) \o <<NL, lines[Len(lines)]>>

\* C6: when exportfs -a has run, cluster.exports holds the whole export set of the
\* run, and the table given to the kernel has a line for every path of the run.
C6_ActivationAfterFullWrite ==
    activated =>
        /\ cluster_exports = ExportsText(exports)
        /\ Len(exports) = Len(con_mounts)
        /\ \A i \in DOMAIN con_mounts : ExportLine(Text(con_mounts[i].k)) \in exported

C6_Witness ==
    /\ activated
    /\ runs = 2
    /\ Len(exports) >= 4

\* C7: "mount -a" runs only when every path of the wait set was seen mounted by
\* its wait-loop.
C7_MountAllAfterWaits ==
    (pc = "mount_a" \/ mount_a_done) =>
        /\ DOMAIN task = DOMAIN mounts
        /\ \A i \in DOMAIN mounts : task[i] = "done" /\ mounts[i].k \in observed

C7_Witness ==
    /\ mount_a_done
    /\ Len(mounts) >= 4
    /\ \A i \in DOMAIN mounts : mounts[i].k \in observed

WaitBegun == \E i \in DOMAIN task : task[i] # "queued"

WaitRunning == Running # {}

FstabWritten ==
    LET block == FstabBlock(fstab_entries)
    IN  /\ pc \notin {"start", "secondary_disks", "network_storage"}
        /\ Len(fstab_entries) = Len(mounts)
        /\ Len(fstab) >= Len(block)
        /\ SubSeq(fstab, Len(fstab) - Len(block) + 1, Len(fstab)) = block

ExportsWritten == cluster_exports # <<>> /\ cluster_exports = ExportsText(exports)

WritingFstab == pc \in {"secondary_disks", "fstab_write"}

WritingExports == pc \in {"exports_loop", "exports_open", "exports_write"}

\* C9 as stated: when a wait-loop has begun, the mount table and, on the controller,
\* the export table are fully written, and no file is written while a loop runs.
C9_FilesWrittenBeforeWaits ==
    /\ WaitBegun => FstabWritten /\ (OnController => ExportsWritten)
    /\ (WritingFstab \/ WritingExports) => ~WaitRunning

\* C9 amended: the mount table is fully written before any wait-loop begins; the
\* export table is written only when every wait-loop has returned and "mount -a"
\* has run; no file is written while a wait-loop runs or the other file is written.
C9_WritesOrderedAroundWaits ==
    /\ WaitBegun => FstabWritten
    /\ WritingFstab => task = <<>>
    /\ (WritingExports \/ cluster_exports # <<>>) =>
          /\ mount_a_done
          /\ FstabWritten
          /\ \A i \in DOMAIN task : task[i] = "done"
    /\ ~(WritingFstab /\ WritingExports)

C9_Witness ==
    /\ OnController
    /\ pc = "exports_write"
    /\ wr >= 2
    /\ Len(task) >= 2
    /\ \A i \in DOMAIN task : task[i] = "done"

\* the waited paths that never become mounted: not mounted and not mountable
Stalled == {k \in DictKeys(mounts) : k \notin reachable /\ k \notin mounted}

LoopCompleted(k) ==
    /\ k \in DictKeys(mounts)
    /\ DOMAIN task = DOMAIN mounts
    /\ task[DictGet(mounts, k)] = "done"

\* C8 as stated: whatever the wait set, when some path never mounts, the wait-loop
\* of every other path that is mounted is started and completes.
C8_StallBlocksNoOther ==
    \A k \in WaitKeys :
        (k \in DictKeys(mounts) /\ k \in mounted /\ Stalled # {}) ~> LoopCompleted(k)

\* C8 amended: when some path never mounts and the paths that never mount are
\* fewer than the worker threads of the pool, the wait-loop of every other path
\* that is mounted is started and completes.
C8_StallBelowPoolSizeBlocksNoOther ==
    \A k \in WaitKeys :
        (/\ k \in DictKeys(mounts)
         /\ k \in mounted
         /\ Stalled # {}
         /\ Cardinality(Stalled) < MaxWorkers) ~> LoopCompleted(k)

\* a stalled loop runs first in the queue while a later path's loop has completed
C8_Witness ==
    /\ Stalled # {}
    /\ Cardinality(Stalled) < MaxWorkers
    /\ Len(mounts) >= 3
    /\ mounts[1].k \in Stalled
    /\ task # <<>>
    /\ 1 \in Running
    /\ \E i \in DOMAIN task : i > 1 /\ task[i] = "done" /\ mounts[i].k \in reachable

====
